---------------------------- MODULE Spec2Model ----------------------------
(***************************************************************************)
(* A model of the threat-model-assessment ticket creator:                  *)
(*   create_jira_issue.py  (check_jira_token, validate_input,              *)
(*                          format_jira_description, main)                 *)
(*   jira_helper.py        (read_jira_config, get_jira_token,              *)
(*                          create_jira_ticket, update_jira_ticket)        *)
(*                                                                         *)
(* Two specifications:                                                     *)
(*   SpecPure  the validator and the renderer applied to every decoded     *)
(*             JSON object of a bounded universe;                          *)
(*   Spec      two invocations of main running concurrently against one    *)
(*             filesystem (the two fixed temporary files, the jira-cli     *)
(*             configuration) and one tracker.                             *)
(***************************************************************************)
EXTENDS Integers, Sequences, FiniteSets, TLC

(***************************************************************************)
(* Decoded JSON values, as json.load returns them.  Every value is a record *)
(* of the same shape:                                                      *)
(*   t  the Python type: "NoneType", "bool", "int", "float", "str",        *)
(*      "list", "dict"                                                     *)
(*   a  the text of a str, as a sequence of atoms (user text is written    *)
(*      one character per atom; the literals of the source stay whole)     *)
(*   n  the value of a bool (0/1), an int, or a float counted in tenths    *)
(*   e  the elements of a list                                             *)
(*   d  the entries of a dict, in insertion order: [k |-> key, v |-> value]*)
(***************************************************************************)
PyNone == [t |-> "NoneType", a |-> <<>>, n |-> 0, e |-> <<>>, d |-> <<>>]

PyBool(b) == [t |-> "bool", a |-> <<>>, n |-> IF b THEN 1 ELSE 0, e |-> <<>>, d |-> <<>>]

PyInt(i) == [t |-> "int", a |-> <<>>, n |-> i, e |-> <<>>, d |-> <<>>]

PyFloat(tenths) == [t |-> "float", a |-> <<>>, n |-> tenths, e |-> <<>>, d |-> <<>>]

PyStr(atoms) == [t |-> "str", a |-> atoms, n |-> 0, e |-> <<>>, d |-> <<>>]

PyList(elems) == [t |-> "list", a |-> <<>>, n |-> 0, e |-> elems, d |-> <<>>]

PyDict(entries) == [t |-> "dict", a |-> <<>>, n |-> 0, e |-> <<>>, d |-> entries]

\* Python truth value testing: `if x`, `not x`.
Truthy(v) ==
    CASE v.t = "NoneType" -> FALSE
      [] v.t \in {"bool", "int", "float"} -> v.n # 0
      [] v.t = "str" -> v.a # <<>>
      [] v.t = "list" -> v.e # <<>>
      [] v.t = "dict" -> v.d # <<>>

\* `key in d` for a dict d.
HasKey(v, key) == \E i \in 1..Len(v.d) : v.d[i].k = key

\* d[key] for a dict d that has the key.
Item(v, key) == v.d[CHOOSE i \in 1..Len(v.d) : v.d[i].k = key].v

\* d.get(key, default) for a dict d.
Get(v, key, default) == IF HasKey(v, key) THEN Item(v, key) ELSE default

\* isinstance(x, (int, float)): bool is a subclass of int.
IsIntOrFloat(v) == v.t \in {"bool", "int", "float"}

\* Whether `for item in x` can start: no TypeError "object is not iterable".
Iterable(v) == v.t \in {"str", "list", "dict"}

\* The items `for item in x` yields: the elements of a list, the characters
\* of a str, the keys of a dict.
Iterate(v) ==
    CASE v.t = "list" -> v.e
      [] v.t = "str" -> [i \in 1..Len(v.a) |-> PyStr(<<v.a[i]>>)]
      [] v.t = "dict" -> [i \in 1..Len(v.d) |-> PyStr(<<v.d[i].k>>)]
      [] OTHER -> <<>>

\* Whether x[key] with a str key returns: x is a dict holding the key.  Any
\* other x raises (KeyError for a dict, TypeError for the rest).
Subscriptable(v, key) == v.t = "dict" /\ HasKey(v, key)

RECURSIVE Digits(_)
\* The decimal digits of a natural number.
Digits(i) ==
    IF i < 10 THEN <<ToString(i)>> ELSE Digits(i \div 10) \o <<ToString(i % 10)>>

\* The sequences of a sequence of sequences, one after the other, with `sep`
\* between them.
RECURSIVE JoinAtoms(_, _)
JoinAtoms(seqs, sep) ==
    IF seqs = <<>> THEN <<>>
    ELSE IF Len(seqs) = 1 THEN seqs[1]
    ELSE seqs[1] \o sep \o JoinAtoms(Tail(seqs), sep)

RECURSIVE Format(_)
\* What an f-string writes for {x}: str(x) for a str, repr(x) for the rest
\* (and for the elements of a list or dict).
Format(v) ==
    CASE v.t = "str" -> v.a
      [] v.t = "NoneType" -> <<"None">>
      [] v.t = "bool" -> IF v.n = 1 THEN <<"True">> ELSE <<"False">>
      [] v.t = "int" -> Digits(v.n)
      [] v.t = "float" -> Digits(v.n \div 10) \o <<".">> \o Digits(v.n % 10)
      [] v.t = "list" ->
            <<"[">> \o JoinAtoms([i \in 1..Len(v.e) |->
                        IF v.e[i].t = "str" THEN <<"'">> \o v.e[i].a \o <<"'">>
                        ELSE Format(v.e[i])], <<", ">>) \o <<"]">>
      [] v.t = "dict" ->
            <<"{">> \o JoinAtoms([i \in 1..Len(v.d) |->
                        <<"'", v.d[i].k, "': ">> \o
                        (IF v.d[i].v.t = "str" THEN <<"'">> \o v.d[i].v.a \o <<"'">>
                         ELSE Format(v.d[i].v))], <<", ">>) \o <<"}">>


(***************************************************************************)
(* create_jira_issue.py: validate_input                                    *)
(***************************************************************************)
\* Whether validate_input(data) raises: data.get on a decoded JSON value
\* that is not an object (AttributeError, not caught by main).
validate_raises(data) == data.t # "dict"

\* The list of error messages for a decoded JSON object, in the order the
\* checks append them.
validate_input(data) ==
    LET summary ==
            IF ~Truthy(Get(data, "summary", PyNone))
            THEN <<"Missing required field: summary">> ELSE <<>>
        background ==
            IF ~Truthy(Get(data, "background", PyNone))
            THEN <<"Missing required field: background">> ELSE <<>>
        current_state ==
            IF ~HasKey(data, "current_state")
            THEN <<"Missing required field: current_state">>
            ELSE IF Item(data, "current_state").t # "dict"
            THEN <<"current_state must be a dictionary">> ELSE <<>>
        tasks ==
            IF ~HasKey(data, "tasks")
            THEN <<"Missing required field: tasks">>
            ELSE IF Item(data, "tasks").t # "list" \/ Len(Item(data, "tasks").e) = 0
            THEN <<"tasks must be a non-empty list">> ELSE <<>>
        effort_days ==
            IF ~HasKey(data, "effort_days")
            THEN <<"Missing required field: effort_days">>
            ELSE IF ~IsIntOrFloat(Item(data, "effort_days"))
            THEN <<"effort_days must be a number">> ELSE <<>>
    IN  summary \o background \o current_state \o tasks \o effort_days

(***************************************************************************)
(* create_jira_issue.py: format_jira_description                           *)
(*                                                                         *)
(* Each section gives [raised, parts]: whether one of its statements       *)
(* raises (KeyError, TypeError, AttributeError) and the values it appends  *)
(* to `parts` otherwise.                                                   *)
(***************************************************************************)
Line(atoms) == PyStr(atoms)

Section(parts) == [raised |-> FALSE, parts |-> parts]

Raised == [raised |-> TRUE, parts |-> <<>>]

\* One after the other; the first that raises ends the function.
Then(s1, s2) ==
    IF s1.raised \/ s2.raised THEN Raised ELSE Section(s1.parts \o s2.parts)

\* for item in x: parts.append(f"{prefix}{item}")
Bullets(x, prefix) ==
    IF ~Iterable(x) THEN Raised
    ELSE Section([i \in 1..Len(Iterate(x)) |-> Line(prefix \o Format(Iterate(x)[i]))])

ReferenceSection(data) ==
    IF Truthy(Get(data, "reference_url", PyNone))
    THEN Section(<< Line(<<"h2. Reference">>),
                    Line(<<"Source: ">> \o Format(Item(data, "reference_url"))),
                    Line(<<>>) >>)
    ELSE Section(<<>>)

BackgroundSection(data) ==
    IF ~HasKey(data, "background") THEN Raised
    ELSE Section(<< Line(<<"h2. Background">>), Item(data, "background"), Line(<<>>) >>)

\* CurrentStateSection with the two loops exchanged: the missing items
\* before the implemented ones.
CurrentStateSection_missing_first(data) ==
    LET current == Get(data, "current_state", PyDict(<<>>))
    IN  IF current.t # "dict" THEN Raised
        ELSE Then(Section(<< Line(<<"h2. Current State">>) >>),
             Then(Bullets(Get(current, "missing", PyList(<<>>)), <<"* (x) ">>),
             Then(Bullets(Get(current, "implemented", PyList(<<>>)), <<"* (/) ">>),
                  Section(<< Line(<<>>) >>))))

CurrentStateSection(data) ==
    LET current == Get(data, "current_state", PyDict(<<>>))
    IN  IF current.t # "dict" THEN Raised
        ELSE Then(Section(<< Line(<<"h2. Current State">>) >>),
             Then(Bullets(Get(current, "implemented", PyList(<<>>)), <<"* (/) ">>),
             Then(Bullets(Get(current, "missing", PyList(<<>>)), <<"* (x) ">>),
                  Section(<< Line(<<>>) >>))))

RECURSIVE TaskGroups(_, _)
\* for i, task_group in enumerate(groups, start=i): heading, bullets, blank
TaskGroups(groups, i) ==
    IF groups = <<>> THEN Section(<<>>)
    ELSE LET task_group == Head(groups)
         IN  IF ~Subscriptable(task_group, "title") THEN Raised
             ELSE IF ~Subscriptable(task_group, "items") THEN Raised
             ELSE Then(Section(<< Line(<<"h3. ">> \o Digits(i) \o <<". ">>
                                       \o Format(Item(task_group, "title"))) >>),
                  Then(Bullets(Item(task_group, "items"), <<"* ">>),
                  Then(Section(<< Line(<<>>) >>),
                       TaskGroups(Tail(groups), i + 1))))

TasksSection(data) ==
    LET tasks == Get(data, "tasks", PyList(<<>>))
    IN  IF ~Iterable(tasks) THEN Raised
        ELSE Then(Section(<< Line(<<"h2. Tasks">>), Line(<<>>) >>),
                  TaskGroups(Iterate(tasks), 1))

OutOfScopeSection(data) ==
    IF Truthy(Get(data, "out_of_scope", PyNone))
    THEN Then(Section(<< Line(<<"h2. Out of Scope">>) >>),
         Then(Bullets(Item(data, "out_of_scope"), <<"* ">>),
              Section(<< Line(<<>>) >>)))
    ELSE Section(<<>>)

EffortSection(data) ==
    IF ~HasKey(data, "effort_days") THEN Raised
    ELSE Section(<< Line(<<"h2. Estimated Effort">>),
                    Line(Format(Item(data, "effort_days")) \o <<" days">>) >>)

\* '\n'.join(parts): TypeError unless every part is a str.
Join(parts) ==
    IF \E i \in 1..Len(parts) : parts[i].t # "str"
    THEN [raised |-> TRUE, text |-> <<>>]
    ELSE [raised |-> FALSE,
          text |-> JoinAtoms([i \in 1..Len(parts) |-> parts[i].a], <<"\n">>)]

\* [raised, text]: whether the call raises, and the description it returns.
format_jira_description(data) ==
    LET all == Then(ReferenceSection(data),
               Then(BackgroundSection(data),
               Then(CurrentStateSection(data),
               Then(TasksSection(data),
               Then(OutOfScopeSection(data),
                    EffortSection(data))))))
    IN  IF all.raised THEN [raised |-> TRUE, text |-> <<>>] ELSE Join(all.parts)

(***************************************************************************)
(* The bounded universe of decoded JSON objects the pure functions are     *)
(* applied to.                                                             *)
(***************************************************************************)
\* The longest list of items (implemented, missing, items, out_of_scope).
MaxItems == 2

\* The most task groups of a report.
MaxGroups == 2

\* A key that is not in the object: dropped by Object.
Absent == [t |-> "absent", a |-> <<>>, n |-> 0, e |-> <<>>, d |-> <<>>]

Field(k, v) == [k |-> k, v |-> v]

\* The object with the given fields, those that are Absent left out.
Object(fields) == PyDict(SelectSeq(fields, LAMBDA f : f.v.t # "absent"))

\* The text "<c><i>", e.g. "i1".
Text(c, i) == PyStr(<<c>> \o Digits(i))

\* The list of n items "<c>1", ..., "<c>n".
Items(c, n) == PyList([i \in 1..n |-> Text(c, i)])

ItemLists(c) == {Items(c, n) : n \in 0..MaxItems}

\* Group j of a report, with n items.
TaskGroup(j, n) == Object(<<Field("title", Text("T", j)), Field("items", Items("t", n))>>)

TaskLists ==
    UNION {{PyList([j \in 1..g |-> TaskGroup(j, sizes[j])]) :
                sizes \in [1..g -> 0..MaxItems]} : g \in 1..MaxGroups}

Report(summary, reference_url, background, current_state, tasks, out_of_scope,
       effort_days, epic, extra) ==
    Object(<<Field("summary", summary), Field("reference_url", reference_url),
             Field("background", background), Field("current_state", current_state),
             Field("tasks", tasks), Field("out_of_scope", out_of_scope),
             Field("effort_days", effort_days), Field("epic", epic),
             Field("x_extra", extra)>>)

\* Reports of the documented schema (JSON Input Schema in the module docstring).
SchemaReports ==
    {Report(PyStr(<<"S">>), reference_url, PyStr(<<"B">>),
            Object(<<Field("implemented", implemented), Field("missing", missing)>>),
            tasks, out_of_scope, effort_days, Absent, Absent) :
        reference_url \in {Absent, PyStr(<<>>), PyStr(<<"u">>)},
        implemented \in ItemLists("i") \cup {Absent},
        missing \in ItemLists("m") \cup {Absent},
        tasks \in TaskLists,
        out_of_scope \in ItemLists("o") \cup {Absent},
        effort_days \in {PyInt(5), PyInt(10), PyFloat(25)}}

\* One value of every JSON type, empty and not.
Zoo ==
    {PyNone, PyBool(FALSE), PyBool(TRUE), PyInt(0), PyInt(5), PyFloat(25),
     PyStr(<<>>), PyStr(<<"S">>), PyList(<<>>), PyList(<<TaskGroup(1, 1)>>),
     PyDict(<<>>)}

\* A value of the documented type for each of the five required fields, in
\* the order summary, background, current_state, tasks, effort_days.
Good ==
    <<PyStr(<<"S">>), PyStr(<<"B">>), PyDict(<<>>), PyList(<<TaskGroup(1, 1)>>), PyInt(5)>>

\* The values of required field i when field f is the one that ranges over
\* the zoo: the others are of the documented type, absent or null.
Choice(f, i) == IF i = f THEN Zoo \cup {Absent} ELSE {Good[i], Absent, PyNone}

\* Objects with one required field absent or of any JSON type, in every
\* combination of the other four being right, absent or null.
ZooObjects ==
    UNION {{Report(summary, Absent, background, current_state, tasks, Absent,
                   effort_days, Absent, Absent) :
                summary \in Choice(f, 1), background \in Choice(f, 2),
                current_state \in Choice(f, 3), tasks \in Choice(f, 4),
                effort_days \in Choice(f, 5)} : f \in 1..5}

\* Objects with an unexpected field, each required field present or not.
ExtraObjects ==
    {Report(summary, Absent, background, current_state, tasks, Absent,
            effort_days, epic, extra) :
        summary \in {PyStr(<<"S">>), Absent}, background \in {PyStr(<<"B">>), Absent},
        current_state \in {PyDict(<<>>), Absent},
        tasks \in {PyList(<<TaskGroup(1, 1)>>), Absent},
        effort_days \in {PyInt(5), Absent},
        epic \in {Absent, PyStr(<<"E">>), PyInt(5)},
        extra \in {PyStr(<<"x">>), PyList(<<>>)}}

\* Objects the validator accepts although a nested or optional field is
\* not of the documented type.
OddObjects ==
    {Report(PyStr(<<"S">>), Absent, PyStr(<<"B">>), current_state,
            PyList(<<TaskGroup(1, 1)>>), Absent, PyInt(5), Absent, Absent) :
        current_state \in
            {Object(<<Field("implemented", x)>>) :
                x \in {PyNone, PyInt(5), PyStr(<<"a", "b">>), PyDict(<<>>)}}}
    \cup
    {Report(PyStr(<<"S">>), Absent, PyStr(<<"B">>), PyDict(<<>>), tasks,
            Absent, PyInt(5), Absent, Absent) :
        tasks \in
            {PyList(<<g>>) :
                g \in {Object(<<Field("title", Text("T", 1))>>),
                       Object(<<Field("items", Items("t", 1))>>),
                       Object(<<Field("title", Text("T", 1)), Field("items", PyNone)>>),
                       Object(<<Field("title", PyInt(5)), Field("items", PyStr(<<"a", "b">>))>>),
                       PyStr(<<"g">>), PyInt(5), PyNone, PyList(<<>>)}}}
    \cup
    {Report(PyStr(<<"S">>), reference_url, PyStr(<<"B">>), PyDict(<<>>),
            PyList(<<TaskGroup(1, 1)>>), out_of_scope, PyInt(5), Absent, Absent) :
        reference_url \in {Absent, PyInt(5), PyList(<<PyStr(<<"u">>)>>)},
        out_of_scope \in {PyNone, PyInt(0), PyInt(5), PyBool(TRUE), PyStr(<<"a", "b">>),
                          Object(<<Field("k", PyInt(5))>>)}}

\* Decoded JSON documents that are not objects.
NonObjects == {PyNone, PyInt(5), PyStr(<<"S">>), PyList(<<>>), PyList(<<PyDict(<<>>)>>)}

Universe == SchemaReports \cup ZooObjects \cup ExtraObjects \cup OddObjects \cup NonObjects

(***************************************************************************)
(* State.                                                                  *)
(***************************************************************************)
VARIABLES
    \* SpecPure: one decoded document, the validator's and the renderer's result
    input,          \* the decoded JSON document
    errors,         \* validate_input(input), once computed
    rendering,      \* format_jira_description(input), once computed
    step,           \* "input", "validated", "rendered", "raised"
    \* Spec: the invocations of main and what they share
    pc,             \* where each invocation is
    token,          \* JIRA_API_TOKEN in each invocation's environment
    stdin,          \* each invocation's standard input
    data,           \* main: data
    description,    \* main: description
    created_key,    \* create_jira_ticket: ticket_key
    ticket_key,     \* main: ticket_key
    exit_code,      \* "running", "0", "1"
    stdout,         \* the lines each invocation printed to standard output
    stderr,         \* the messages each invocation printed to standard error
    trace,          \* the calls each invocation made and what they returned
    create_read,    \* what the tracker CLI read from the description file
    desc_file,      \* /tmp/jira_description_temp.txt
    payload_file,   \* /tmp/jira_update_payload.json
    config,         \* ~/.config/.jira/.config.yml
    globals_zsh,    \* whether ~/.zsh-custom/globals.zsh exports JIRA_API_TOKEN
    tracker         \* the ticket each invocation's create call made

pure_vars == <<input, errors, rendering, step>>

main_vars == <<pc, token, stdin, data, description, created_key, ticket_key,
               exit_code, stdout, stderr, trace, create_read, desc_file,
               payload_file, config, globals_zsh, tracker>>

vars == <<pure_vars, main_vars>>

\* The concurrent invocations.
Procs == {"p1", "p2"}

NotRendered == [raised |-> FALSE, text |-> <<>>]

(***************************************************************************)
(* SpecPure: validate_input, then format_jira_description when the list of *)
(* errors is empty, as main calls them.                                    *)
(***************************************************************************)
MainIdle ==
    /\ pc = [p \in Procs |-> "idle"]
    /\ token = [p \in Procs |-> "secret"]
    /\ stdin = [p \in Procs |-> [json |-> FALSE, value |-> PyNone]]
    /\ data = [p \in Procs |-> PyNone]
    /\ description = [p \in Procs |-> <<>>]
    /\ created_key = [p \in Procs |-> ""]
    /\ ticket_key = [p \in Procs |-> ""]
    /\ exit_code = [p \in Procs |-> "running"]
    /\ stdout = [p \in Procs |-> <<>>]
    /\ stderr = [p \in Procs |-> <<>>]
    /\ trace = [p \in Procs |-> <<>>]
    /\ create_read = [p \in Procs |-> [read |-> FALSE, text |-> <<>>]]
    /\ desc_file = [by |-> "nobody", text |-> <<>>]
    /\ payload_file = [by |-> "nobody", description |-> <<>>]
    /\ config = "ok"
    /\ globals_zsh = FALSE
    /\ tracker = [p \in Procs |-> [exists |-> FALSE, body |-> <<>>]]

InitPure ==
    /\ input \in Universe
    /\ errors = <<>>
    /\ rendering = NotRendered
    /\ step = "input"
    /\ MainIdle

\* errors = validate_input(data), for a decoded document
ValidateInput ==
    /\ step = "input"
    /\ IF validate_raises(input)
       THEN step' = "raised" /\ errors' = errors
       ELSE step' = "validated" /\ errors' = validate_input(input)
    /\ UNCHANGED <<input, rendering, main_vars>>

\* description = format_jira_description(data), after `if errors: sys.exit(1)`
FormatDescription ==
    /\ step = "validated"
    /\ errors = <<>>
    /\ rendering' = format_jira_description(input)
    /\ step' = "rendered"
    /\ UNCHANGED <<input, errors, main_vars>>

NextPure == ValidateInput \/ FormatDescription

SpecPure == InitPure /\ [][NextPure]_vars

(***************************************************************************)
(* Spec: the invocations of main.                                          *)
(***************************************************************************)
\* JIRA_API_TOKEN in the environment: unset, set to the empty string, set.
TokenValues ==
    {[set |-> FALSE, value |-> ""], [set |-> TRUE, value |-> ""],
     [set |-> TRUE, value |-> "secret"]}

\* A report with an epic and a component, and one without, of different text.
ReportA ==
    Object(<<Field("summary", PyStr(<<"A">>)), Field("reference_url", PyStr(<<"u">>)),
             Field("background", PyStr(<<"a">>)),
             Field("current_state", Object(<<Field("implemented", Items("i", 1))>>)),
             Field("tasks", PyList(<<TaskGroup(1, 1)>>)),
             Field("effort_days", PyInt(5)), Field("epic", PyStr(<<"E">>)),
             Field("component", PyStr(<<"C">>))>>)

ReportB ==
    Object(<<Field("summary", PyStr(<<"B">>)), Field("background", PyStr(<<"b">>)),
             Field("current_state", PyDict(<<>>)),
             Field("tasks", PyList(<<TaskGroup(1, 0)>>)),
             Field("effort_days", PyFloat(25))>>)

\* What standard input holds: text that is not JSON, or a JSON document.
StdinInputs ==
    {[json |-> FALSE, value |-> PyNone]}
    \cup
    {[json |-> TRUE, value |-> v] :
        v \in {ReportA, ReportB,
               \* not an object
               PyList(<<>>),
               \* required fields missing
               Object(<<Field("summary", PyStr(<<"S">>))>>),
               \* accepted by the validator, a task group without items
               Report(PyStr(<<"S">>), Absent, PyStr(<<"B">>), PyDict(<<>>),
                      PyList(<<Object(<<Field("title", Text("T", 1))>>)>>),
                      Absent, PyInt(5), Absent, Absent),
               \* accepted by the validator, the epic not a string
               Report(PyStr(<<"S">>), Absent, PyStr(<<"B">>), PyDict(<<>>),
                      PyList(<<TaskGroup(1, 1)>>), Absent, PyInt(5), PyInt(5), Absent),
               \* accepted by the validator, the summary not a string
               Report(PyInt(5), Absent, PyStr(<<"B">>), PyDict(<<>>),
                      PyList(<<TaskGroup(1, 1)>>), Absent, PyInt(5), Absent, Absent)}}

Init ==
    /\ input = PyNone
    /\ errors = <<>>
    /\ rendering = NotRendered
    /\ step = "idle"
    /\ pc = [p \in Procs |-> "start"]
    /\ token \in [Procs -> TokenValues]
    /\ stdin \in [Procs -> StdinInputs]
    /\ data = [p \in Procs |-> PyNone]
    /\ description = [p \in Procs |-> <<>>]
    /\ created_key = [p \in Procs |-> ""]
    /\ ticket_key = [p \in Procs |-> ""]
    /\ exit_code = [p \in Procs |-> "running"]
    /\ stdout = [p \in Procs |-> <<>>]
    /\ stderr = [p \in Procs |-> <<>>]
    /\ trace = [p \in Procs |-> <<>>]
    /\ create_read = [p \in Procs |-> [read |-> FALSE, text |-> <<>>]]
    /\ desc_file = [by |-> "nobody", text |-> <<>>]
    /\ payload_file = [by |-> "nobody", description |-> <<>>]
    /\ config \in {"missing", "no server", "ok"}
    /\ globals_zsh \in BOOLEAN
    /\ tracker = [p \in Procs |-> [exists |-> FALSE, body |-> <<>>]]

\* The invocation goes on at `label` in state `code`, having printed `out`
\* and `err` and made the calls `tr`.
Step(p, label, code, out, err, tr) ==
    /\ pc' = [pc EXCEPT ![p] = label]
    /\ exit_code' = [exit_code EXCEPT ![p] = code]
    /\ stdout' = [stdout EXCEPT ![p] = @ \o out]
    /\ stderr' = [stderr EXCEPT ![p] = @ \o err]
    /\ trace' = [trace EXCEPT ![p] = @ \o tr]

Goto(p, label, out, err, tr) == Step(p, label, "running", out, err, tr)

\* sys.exit(code), or an exception nothing catches (the interpreter exits 1)
Exit(p, code, out, err, tr) == Step(p, "done", code, out, err, tr)

\* check_jira_token(): the token, or "" for None
check_jira_token(p) ==
    IF ~token[p].set \/ token[p].value = "" THEN "" ELSE token[p].value

\* get_jira_token(): the environment first, then globals.zsh; "" for None
get_jira_token(p) ==
    IF token[p].set /\ token[p].value # "" THEN token[p].value
    ELSE IF globals_zsh THEN "exported" ELSE ""

\* read_jira_config() raises FileNotFoundError
read_jira_config_raises == config = "missing"

\* config['server'] raises KeyError
no_server == config = "no server"

\* CheckToken without the exit: main goes on with no token.
CheckToken_without_exit(p) ==
    /\ pc[p] = "start"
    /\ Goto(p, "read", <<>>, <<>>, <<"check_jira_token">>)
    /\ UNCHANGED <<pure_vars, token, stdin, data, description, created_key, ticket_key,
                   create_read, desc_file, payload_file, config, globals_zsh, tracker>>

\* main: if not check_jira_token(): sys.exit(1)
CheckToken(p) ==
    /\ pc[p] = "start"
    /\ IF check_jira_token(p) = ""
       THEN Exit(p, "1", <<>>, <<"ERROR: JIRA_API_TOKEN environment variable not set">>,
                 <<"check_jira_token">>)
       ELSE Goto(p, "read", <<>>, <<>>, <<"check_jira_token">>)
    /\ UNCHANGED <<pure_vars, token, stdin, data, description, created_key, ticket_key,
                   create_read, desc_file, payload_file, config, globals_zsh, tracker>>

\* main: data = json.load(sys.stdin)
ReadStdin(p) ==
    /\ pc[p] = "read"
    /\ IF ~stdin[p].json
       THEN /\ Exit(p, "1", <<>>, <<"ERROR: Invalid JSON input">>, <<"json.load">>)
            /\ data' = data
       ELSE /\ Goto(p, "validate", <<>>, <<>>, <<"json.load">>)
            /\ data' = [data EXCEPT ![p] = stdin[p].value]
    /\ UNCHANGED <<pure_vars, token, stdin, description, created_key, ticket_key,
                   create_read, desc_file, payload_file, config, globals_zsh, tracker>>

\* Validate without `if errors: sys.exit(1)`: the errors are not looked at.
Validate_ignoring_errors(p) ==
    /\ pc[p] = "validate"
    /\ IF validate_raises(data[p])
       THEN Exit(p, "1", <<>>, <<"Traceback">>, <<"validate_input">>)
       ELSE Goto(p, "render", <<>>, <<>>, <<"validate_input">>)
    /\ UNCHANGED <<pure_vars, token, stdin, data, description, created_key, ticket_key,
                   create_read, desc_file, payload_file, config, globals_zsh, tracker>>

\* main: errors = validate_input(data); if errors: ... sys.exit(1)
Validate(p) ==
    /\ pc[p] = "validate"
    /\ IF validate_raises(data[p])
       THEN Exit(p, "1", <<>>, <<"Traceback">>, <<"validate_input">>)
       ELSE IF validate_input(data[p]) # <<>>
       THEN Exit(p, "1", <<>>, <<"ERROR: Invalid input data:">> \o validate_input(data[p]),
                 <<"validate_input">>)
       ELSE Goto(p, "render", <<>>, <<>>, <<"validate_input">>)
    /\ UNCHANGED <<pure_vars, token, stdin, data, description, created_key, ticket_key,
                   create_read, desc_file, payload_file, config, globals_zsh, tracker>>

\* main: description = format_jira_description(data)
Render(p) ==
    /\ pc[p] = "render"
    /\ LET r == format_jira_description(data[p])
       IN  IF r.raised
           THEN /\ Exit(p, "1", <<>>, <<"Traceback">>, <<"format_jira_description">>)
                /\ description' = description
           ELSE /\ Goto(p, "create", <<>>, <<>>, <<"format_jira_description">>)
                /\ description' = [description EXCEPT ![p] = r.text]
    /\ UNCHANGED <<pure_vars, token, stdin, data, created_key, ticket_key,
                   create_read, desc_file, payload_file, config, globals_zsh, tracker>>

(***************************************************************************)
(* jira_helper.py: create_jira_ticket, as main calls it, and main's        *)
(* `if not ticket_key: ... sys.exit(1)` where it returns None.             *)
(***************************************************************************)
\* The key of the ticket the tracker makes for an invocation's create call.
KeyOf(p) == IF p = "p1" THEN "PROJ-1" ELSE "PROJ-2"

\* A line of the tracker CLI's output: whether it holds 'browse/', and the
\* text after the last 'browse/', stripped.
CliLine(browse, after) == [browse |-> browse, after |-> after]

\* What `jira issue create` may print when it exits 0: the confirmation and
\* the ticket's URL; the confirmation alone; a URL that ends at 'browse/'.
CreateStdouts(p) ==
    {<<CliLine(FALSE, ""), CliLine(TRUE, KeyOf(p))>>,
     <<CliLine(FALSE, "")>>,
     <<CliLine(TRUE, "")>>}

\* How subprocess.run of `jira issue create` may end: it raises
\* (TimeoutExpired after 30 s, OSError), the ticket made or not; the CLI
\* exits non-zero; the CLI exits 0 having made the ticket.
CreateOutcomes(p) ==
    {[raises |-> TRUE, rc |-> 1, out |-> <<>>, created |-> c] : c \in BOOLEAN}
    \cup {[raises |-> FALSE, rc |-> 1, out |-> <<>>, created |-> FALSE]}
    \cup {[raises |-> FALSE, rc |-> 0, out |-> o, created |-> TRUE] : o \in CreateStdouts(p)}

\* How subprocess.run of `jira epic add` and of `curl` may end.
RunOutcomes == {"ok", "nonzero", "raises"}

RECURSIVE ParseKey(_)
\* for line in result.stdout.split('\n'): if 'browse/' in line: ticket_key =
\* line.split('browse/')[-1].strip(); break        ("" for None)
ParseKey(lines) ==
    IF lines = <<>> THEN ""
    ELSE IF Head(lines).browse THEN Head(lines).after
    ELSE ParseKey(Tail(lines))

\* The lines printed to standard output, with the ticket key they hold.
Printed(line, key) == [line |-> line, key |-> key]

\* The str arguments subprocess.run needs for cmd: summary, priority and,
\* when given, component (a TypeError otherwise, before the CLI starts).
create_args_are_str(d) ==
    /\ Item(d, "summary").t = "str"
    /\ Get(d, "priority", PyStr(<<"Critical">>)).t = "str"
    /\ Truthy(Get(d, "component", PyNone)) => Item(d, "component").t = "str"

\* create_jira_ticket returns None (a failed call, or the except clause),
\* and main exits 1.
CreateFailed(p, out, err, tr) ==
    Exit(p, "1", out, err \o <<"ERROR: Failed to create JIRA ticket">>,
         tr \o <<"create_jira_ticket returned None">>)

\* CreateWrite without desc_file.write_text(description): the CLI is handed
\* whatever the file holds.
CreateWrite_without_write(p) ==
    /\ pc[p] = "create"
    /\ IF read_jira_config_raises \/ get_jira_token(p) = ""
       THEN CreateFailed(p, <<>>, <<"Error creating JIRA ticket">>, <<"create_jira_ticket">>)
       ELSE Goto(p, "create_run", <<>>, <<>>, <<"create_jira_ticket">>)
    /\ UNCHANGED <<pure_vars, token, stdin, data, description, created_key, ticket_key,
                   create_read, desc_file, payload_file, config, globals_zsh, tracker>>

\* read_jira_config(), get_jira_token(), desc_file.write_text(description)
CreateWrite(p) ==
    /\ pc[p] = "create"
    /\ IF read_jira_config_raises \/ get_jira_token(p) = ""
       THEN /\ CreateFailed(p, <<>>, <<"Error creating JIRA ticket">>,
                            <<"create_jira_ticket">>)
            /\ desc_file' = desc_file
       ELSE /\ Goto(p, "create_run", <<>>, <<>>, <<"create_jira_ticket", "write desc_file">>)
            /\ desc_file' = [by |-> p, text |-> description[p]]
    /\ UNCHANGED <<pure_vars, token, stdin, data, description, created_key, ticket_key,
                   create_read, payload_file, config, globals_zsh, tracker>>

\* print(f"Created JIRA ticket: {ticket_key}"), print(f"  URL:
\* {config['server']}/browse/{ticket_key}"), return ticket_key
FinishCreate(p, key, out, err, tr) ==
    IF no_server
    THEN /\ CreateFailed(p, out \o <<Printed("Created JIRA ticket: {ticket_key}", key)>>,
                         err \o <<"Error creating JIRA ticket">>, tr)
         /\ ticket_key' = ticket_key
    ELSE /\ Goto(p, "update",
                 out \o <<Printed("Created JIRA ticket: {ticket_key}", key),
                          Printed("  URL: {server}/browse/{ticket_key}", key)>>,
                 err, tr \o <<"create_jira_ticket returned ticket_key">>)
         /\ ticket_key' = [ticket_key EXCEPT ![p] = key]

\* CreateRun that runs the CLI again when the call raised or exited non-zero.
CreateRun_with_retry(p) ==
    /\ pc[p] = "create_run"
    /\ \E o \in CreateOutcomes(p) :
          LET key == ParseKey(o.out)
              run == <<"jira issue create">>
          IN  /\ create_read' = [create_read EXCEPT ![p] =
                                    [read |-> TRUE, text |-> desc_file.text]]
              /\ tracker' = IF o.created
                            THEN [tracker EXCEPT ![p] =
                                     [exists |-> TRUE, body |-> desc_file.text]]
                            ELSE tracker
              /\ IF o.raises \/ o.rc # 0
                 THEN /\ Goto(p, "create_run", <<>>, <<>>, run)
                      /\ UNCHANGED <<created_key, ticket_key>>
                 ELSE IF key = ""
                 THEN /\ CreateFailed(p, <<Printed("{result.stdout}", "")>>,
                                      <<"Ticket created but couldn't extract key">>, run)
                      /\ UNCHANGED <<created_key, ticket_key>>
                 ELSE /\ FinishCreate(p, key, <<>>, <<>>, run)
                      /\ created_key' = [created_key EXCEPT ![p] = key]
    /\ UNCHANGED <<pure_vars, token, stdin, data, description, desc_file,
                   payload_file, config, globals_zsh>>

\* result = subprocess.run(cmd, ..., timeout=30), the return code, the key,
\* and with no epic the rest of the function
CreateRun(p) ==
    /\ pc[p] = "create_run"
    /\ IF ~create_args_are_str(data[p])
       THEN /\ CreateFailed(p, <<>>, <<"Error creating JIRA ticket">>, <<>>)
            /\ UNCHANGED <<create_read, tracker, created_key, ticket_key>>
       ELSE \E o \in CreateOutcomes(p) :
            LET key == ParseKey(o.out)
                run == <<"jira issue create",
                         IF o.raises THEN "jira issue create raised"
                         ELSE IF o.rc # 0 THEN "jira issue create exited non-zero"
                         ELSE "jira issue create exited 0">>
            IN  /\ create_read' = [create_read EXCEPT ![p] =
                                      [read |-> TRUE, text |-> desc_file.text]]
                /\ tracker' = IF o.created
                              THEN [tracker EXCEPT ![p] =
                                       [exists |-> TRUE, body |-> desc_file.text]]
                              ELSE tracker
                /\ IF o.raises
                   THEN /\ CreateFailed(p, <<>>, <<"Error creating JIRA ticket">>, run)
                        /\ UNCHANGED <<created_key, ticket_key>>
                   ELSE IF o.rc # 0
                   THEN /\ CreateFailed(p, <<>>, <<"Failed to create JIRA ticket">>, run)
                        /\ UNCHANGED <<created_key, ticket_key>>
                   ELSE IF key = ""
                   THEN /\ CreateFailed(p, <<Printed("{result.stdout}", "")>>,
                                        <<"Ticket created but couldn't extract key">>, run)
                        /\ UNCHANGED <<created_key, ticket_key>>
                   ELSE IF Truthy(Get(data[p], "epic", PyNone))
                   THEN /\ Goto(p, "epic", <<>>, <<>>, run)
                        /\ created_key' = [created_key EXCEPT ![p] = key]
                        /\ ticket_key' = ticket_key
                   ELSE /\ FinishCreate(p, key, <<>>, <<>>, run)
                        /\ created_key' = [created_key EXCEPT ![p] = key]
    /\ UNCHANGED <<pure_vars, token, stdin, data, description, desc_file,
                   payload_file, config, globals_zsh>>

\* if epic: epic_result = subprocess.run(['jira', 'epic', 'add', epic,
\* ticket_key], ..., timeout=10), and the rest of the function
EpicLink(p) ==
    /\ pc[p] = "epic"
    /\ IF Item(data[p], "epic").t # "str"
       THEN /\ CreateFailed(p, <<>>, <<"Error creating JIRA ticket">>, <<>>)
            /\ ticket_key' = ticket_key
       ELSE \E o \in RunOutcomes :
            LET run == <<"jira epic add">>
                key == created_key[p]
            IN  IF o = "raises"
                THEN /\ CreateFailed(p, <<>>, <<"Error creating JIRA ticket">>, run)
                     /\ ticket_key' = ticket_key
                ELSE IF o = "nonzero"
                THEN FinishCreate(p, key, <<>>, <<"Ticket created but epic link failed">>, run)
                ELSE FinishCreate(p, key,
                                  <<Printed("Linked {ticket_key} to epic {epic}", key)>>,
                                  <<>>, run)
    /\ UNCHANGED <<pure_vars, token, stdin, data, description, created_key,
                   create_read, desc_file, payload_file, config, globals_zsh, tracker>>

(***************************************************************************)
(* jira_helper.py: update_jira_ticket(ticket_key, description), as main    *)
(* calls it, and the end of main.                                          *)
(***************************************************************************)
\* UpdateFailed with the failed update fatal: main exits 1.
UpdateFailed_fatal(p, err, tr) ==
    Exit(p, "1", <<>>,
         err \o <<"ERROR: Failed to update JIRA ticket">>,
         tr \o <<"update_jira_ticket returned False">>)

\* update_jira_ticket returns False; main warns, prints the key, exits 0.
UpdateFailed(p, err, tr) ==
    Exit(p, "0", <<Printed("{ticket_key}", ticket_key[p])>>,
         err \o <<"WARNING: Created {ticket_key} but failed to update description">>,
         tr \o <<"update_jira_ticket returned False">>)

\* read_jira_config(), get_jira_token(), the payload,
\* payload_file.write_text(json.dumps(payload)), cmd
UpdateWrite(p) ==
    /\ pc[p] = "update"
    /\ IF read_jira_config_raises \/ get_jira_token(p) = ""
       THEN /\ UpdateFailed(p, <<"Error updating JIRA ticket">>, <<"update_jira_ticket">>)
            /\ payload_file' = payload_file
       ELSE IF description[p] = <<>>
       THEN /\ UpdateFailed(p, <<"No fields to update">>, <<"update_jira_ticket">>)
            /\ payload_file' = payload_file
       ELSE /\ payload_file' = [by |-> p, description |-> description[p]]
            /\ IF no_server
               THEN UpdateFailed(p, <<"Error updating JIRA ticket">>,
                                 <<"update_jira_ticket", "write payload_file">>)
               ELSE Goto(p, "update_run", <<>>, <<>>,
                         <<"update_jira_ticket", "write payload_file">>)
    /\ UNCHANGED <<pure_vars, token, stdin, data, description, created_key, ticket_key,
                   create_read, desc_file, config, globals_zsh, tracker>>

\* result = subprocess.run(cmd, ..., timeout=30), the return code, and the
\* end of main: print(ticket_key), sys.exit(0)
UpdateRun(p) ==
    /\ pc[p] = "update_run"
    /\ \E o \in RunOutcomes :
          LET run == <<"curl PUT">>
          IN  IF o = "raises"
              THEN /\ UpdateFailed(p, <<"Error updating JIRA ticket">>, run)
                   /\ tracker' = tracker
              ELSE IF o = "nonzero"
              THEN /\ UpdateFailed(p, <<"Failed to update JIRA ticket">>, run)
                   /\ tracker' = tracker
              ELSE /\ Exit(p, "0",
                           <<Printed("Updated JIRA ticket: {ticket_key}", ticket_key[p]),
                             Printed("{ticket_key}", ticket_key[p])>>,
                           <<>>, run \o <<"update_jira_ticket returned True">>)
                   /\ tracker' = [tracker EXCEPT ![p] =
                                     [exists |-> TRUE, body |-> payload_file.description]]
    /\ UNCHANGED <<pure_vars, token, stdin, data, description, created_key, ticket_key,
                   create_read, desc_file, payload_file, config, globals_zsh>>

main(p) ==
    \/ CheckToken(p)
    \/ ReadStdin(p)
    \/ Validate(p)
    \/ Render(p)
    \/ CreateWrite(p)
    \/ CreateRun(p)
    \/ EpicLink(p)
    \/ UpdateWrite(p)
    \/ UpdateRun(p)

Next == \E p \in Procs : main(p)

Spec == Init /\ [][Next]_vars

(***************************************************************************)
(* Claims about the pure functions, checked under SpecPure.                *)
(***************************************************************************)
\* A required text field is missing or empty (a falsy value counts as missing).
C5_MissingOrEmpty(d, k) == ~HasKey(d, k) \/ ~Truthy(Item(d, k))

\* The messages the five checks give for an object, one per failing check, in
\* the order summary, background, current_state, tasks, effort_days.
C5_Expected(d) ==
    (IF C5_MissingOrEmpty(d, "summary")
     THEN <<"Missing required field: summary">> ELSE <<>>)
    \o (IF C5_MissingOrEmpty(d, "background")
        THEN <<"Missing required field: background">> ELSE <<>>)
    \o (IF ~HasKey(d, "current_state") THEN <<"Missing required field: current_state">>
        ELSE IF Item(d, "current_state").t # "dict"
        THEN <<"current_state must be a dictionary">> ELSE <<>>)
    \o (IF ~HasKey(d, "tasks") THEN <<"Missing required field: tasks">>
        ELSE IF ~(Item(d, "tasks").t = "list" /\ Item(d, "tasks").e # <<>>)
        THEN <<"tasks must be a non-empty list">> ELSE <<>>)
    \o (IF ~HasKey(d, "effort_days") THEN <<"Missing required field: effort_days">>
        ELSE IF Item(d, "effort_days").t \notin {"int", "float"}
        THEN <<"effort_days must be a number">> ELSE <<>>)

\* C5: for every decoded JSON object, validate_input returns exactly one
\* message for each failing check (summary missing/empty, background
\* missing/empty, current_state missing or not a mapping, tasks missing or not
\* a non-empty list, effort_days missing or not an integer/float), in that
\* order, and nothing else.
C5_OneMessagePerFailingCheck ==
    step = "validated" => errors = C5_Expected(input)

\* C10: for every decoded JSON object on which validate_input returns an
\* empty list, format_jira_description returns a description: it does not
\* raise.
C10_ValidatedRenders ==
    step = "rendered" => ~rendering.raised

\* A list of strings.
C7_Strings(v) == v.t = "list" /\ \A i \in 1..Len(v.e) : v.e[i].t = "str"

\* A report of the data model: every field present is of its documented type.
C7_Report(d) ==
    /\ d.t = "dict"
    /\ HasKey(d, "summary") /\ Item(d, "summary").t = "str"
    /\ HasKey(d, "reference_url") => Item(d, "reference_url").t = "str"
    /\ HasKey(d, "background") /\ Item(d, "background").t = "str"
    /\ HasKey(d, "current_state") /\ Item(d, "current_state").t = "dict"
    /\ \A k \in {"implemented", "missing"} :
          HasKey(Item(d, "current_state"), k) => C7_Strings(Item(Item(d, "current_state"), k))
    /\ HasKey(d, "tasks") /\ Item(d, "tasks").t = "list"
    /\ \A i \in 1..Len(Item(d, "tasks").e) :
          LET g == Item(d, "tasks").e[i]
          IN  /\ g.t = "dict"
              /\ HasKey(g, "title") /\ Item(g, "title").t = "str"
              /\ HasKey(g, "items") /\ C7_Strings(Item(g, "items"))
    /\ HasKey(d, "out_of_scope") => C7_Strings(Item(d, "out_of_scope"))
    /\ HasKey(d, "effort_days") /\ Item(d, "effort_days").t \in {"int", "float"}

\* The number as written in decimal: 5, 10, 2.5.
C7_Number(v) ==
    IF v.t = "int" THEN Digits(v.n)
    ELSE Digits(v.n \div 10) \o <<".">> \o Digits(v.n % 10)

\* The texts of a list of strings, each behind the bullet, or nothing for a
\* list that is absent.
C7_Bullets(d, k, bullet) ==
    IF HasKey(d, k) THEN [i \in 1..Len(Item(d, k).e) |-> bullet \o Item(d, k).e[i].a]
    ELSE <<>>

RECURSIVE C7_Groups(_, _)
\* The lines of the task groups from group i on: for each, the numbered
\* sub-heading, one bullet per item, a blank line.
C7_Groups(d, i) ==
    IF i > Len(Item(d, "tasks").e) THEN <<>>
    ELSE LET g == Item(d, "tasks").e[i]
         IN  << <<"h3. ">> \o Digits(i) \o <<". ">> \o Item(g, "title").a >>
             \o C7_Bullets(g, "items", <<"* ">>)
             \o << <<>> >>
             \o C7_Groups(d, i + 1)

\* The lines of the reference rendering of a report.
C7_Lines(d) ==
    (IF HasKey(d, "reference_url") /\ Item(d, "reference_url").a # <<>>
     THEN << <<"h2. Reference">>, <<"Source: ">> \o Item(d, "reference_url").a, <<>> >>
     ELSE <<>>)
    \o << <<"h2. Background">>, Item(d, "background").a, <<>> >>
    \o << <<"h2. Current State">> >>
    \o C7_Bullets(Item(d, "current_state"), "implemented", <<"* (/) ">>)
    \o C7_Bullets(Item(d, "current_state"), "missing", <<"* (x) ">>)
    \o << <<>> >>
    \o << <<"h2. Tasks">>, <<>> >>
    \o C7_Groups(d, 1)
    \o (IF HasKey(d, "out_of_scope") /\ Item(d, "out_of_scope").e # <<>>
        THEN << <<"h2. Out of Scope">> >> \o C7_Bullets(d, "out_of_scope", <<"* ">>)
             \o << <<>> >>
        ELSE <<>>)
    \o << <<"h2. Estimated Effort">>, C7_Number(Item(d, "effort_days")) \o <<" days">> >>

\* C7: for every validated report, format_jira_description returns exactly
\* the lines of the reference rendering, in the order Reference (iff
\* reference_url is non-empty), Background, Current State (always; the
\* implemented bullets before the missing ones), Tasks (groups numbered from
\* 1, one bullet per item), Out of Scope (iff a non-empty list), Estimated
\* Effort, the last line being "<effort_days> days".
C7_ReferenceRendering ==
    (step = "rendered" /\ C7_Report(input)) =>
        /\ ~rendering.raised
        /\ rendering.text = JoinAtoms(C7_Lines(input), <<"\n">>)

\* A report with every optional section, two task groups, implemented and
\* missing items, has been rendered.
C7_Witness ==
    /\ step = "rendered"
    /\ C7_Report(input)
    /\ ~rendering.raised
    /\ Truthy(Get(input, "reference_url", PyNone))
    /\ Truthy(Get(input, "out_of_scope", PyNone))
    /\ Len(Item(input, "tasks").e) >= 2
    /\ Truthy(Get(Item(input, "current_state"), "implemented", PyNone))
    /\ Truthy(Get(Item(input, "current_state"), "missing", PyNone))

(***************************************************************************)
(* Claims about main, checked under Spec.                                  *)
(***************************************************************************)
Has(seq, x) == \E i \in 1..Len(seq) : seq[i] = x

Count(seq, x) == Cardinality({i \in 1..Len(seq) : seq[i] = x})

\* x occurs in seq, and y only after it.
Precedes(seq, x, y) ==
    \A j \in 1..Len(seq) : seq[j] = y => \E i \in 1..(j - 1) : seq[i] = x

\* The external processes: the tracker CLI's create and epic link, the HTTP update.
ExternalCalls == {"jira issue create", "jira epic add", "curl PUT"}

TokenMissing(p) == ~token[p].set \/ token[p].value = ""

\* C1: an invocation with JIRA_API_TOKEN unset or empty exits with code 1
\* and never reads standard input, never parses JSON and never invokes an
\* external process.
C1_MissingToken ==
    \A p \in Procs :
        TokenMissing(p) =>
            /\ pc[p] \in {"start", "done"}
            /\ pc[p] = "done" => exit_code[p] = "1"
            /\ exit_code[p] # "0"
            /\ \A i \in 1..Len(trace[p]) : trace[p][i] = "check_jira_token"
            /\ data[p] = PyNone /\ description[p] = <<>>
            /\ desc_file.by # p /\ payload_file.by # p
            /\ ~create_read[p].read /\ ~tracker[p].exists

\* An invocation whose token is unset has exited, and one whose token is
\* empty.
C1_Witness ==
    /\ \E p \in Procs : ~token[p].set /\ pc[p] = "done" /\ exit_code[p] = "1"
    /\ \E p \in Procs : token[p].set /\ token[p].value = "" /\ pc[p] = "done"

\* C2: if create_jira_ticket fails, main exits with code 1, prints no
\* ticket identifier and never invokes the update; if it succeeds and
\* update_jira_ticket fails for any reason, main still prints the ticket
\* identifier, warns on standard error and exits with code 0.
C2_AsymmetricSeverity ==
    \A p \in Procs :
        pc[p] = "done" =>
            /\ Has(trace[p], "create_jira_ticket returned None") =>
                  /\ exit_code[p] = "1"
                  /\ \A i \in 1..Len(stdout[p]) : stdout[p][i].key = ""
                  /\ ~Has(trace[p], "update_jira_ticket")
            /\ Has(trace[p], "update_jira_ticket returned False") =>
                  /\ exit_code[p] = "0"
                  /\ ticket_key[p] # ""
                  /\ Has(stdout[p], Printed("{ticket_key}", ticket_key[p]))
                  /\ Has(stderr[p],
                         "WARNING: Created {ticket_key} but failed to update description")

\* What an invocation did past validation: rendered, wrote a temporary
\* file, invoked an external process.
PastValidation(p) ==
    \/ Has(trace[p], "format_jira_description")
    \/ Has(trace[p], "write desc_file") \/ Has(trace[p], "write payload_file")
    \/ \E c \in ExternalCalls : Has(trace[p], c)
    \/ desc_file.by = p \/ payload_file.by = p
    \/ create_read[p].read \/ tracker[p].exists

\* Standard input is malformed, or the validator returns errors for it.
Rejected(p) ==
    \/ ~stdin[p].json
    \/ stdin[p].value.t = "dict" /\ validate_input(stdin[p].value) # <<>>

\* C3: the create operation is invoked only after standard input decoded as
\* JSON and validate_input returned no error; with malformed JSON or one or
\* more errors main exits with code 1 without rendering, without writing the
\* temporary description file and without invoking any external process.
C3_ValidationGates ==
    \A p \in Procs :
        /\ PastValidation(p) =>
              /\ stdin[p].json /\ data[p] = stdin[p].value
              /\ data[p].t = "dict" /\ validate_input(data[p]) = <<>>
              /\ Has(trace[p], "validate_input")
        /\ Precedes(trace[p], "json.load", "validate_input")
        /\ Precedes(trace[p], "validate_input", "format_jira_description")
        /\ Precedes(trace[p], "format_jira_description", "jira issue create")
        /\ Rejected(p) =>
              /\ ~PastValidation(p)
              /\ pc[p] = "done" => exit_code[p] = "1"
              /\ exit_code[p] # "0"

\* An invocation given an object with errors has exited, and one given a
\* valid report has invoked create.
C3_Witness ==
    /\ \E p \in Procs :
          /\ Has(trace[p], "validate_input") /\ Rejected(p)
          /\ pc[p] = "done" /\ exit_code[p] = "1"
    /\ \E p \in Procs : Has(trace[p], "jira issue create")

\* C4: in one invocation create is invoked at most once, the epic link at
\* most once, only when an epic was supplied and a ticket identifier was
\* extracted from the create output, and the update at most once and only
\* after create returned an identifier; no failure is followed by a second
\* invocation of the same operation.
C4_LinearNoRetry ==
    \A p \in Procs :
        /\ \A c \in ExternalCalls : Count(trace[p], c) <= 1
        /\ Count(trace[p], "write desc_file") <= 1
        /\ Count(trace[p], "write payload_file") <= 1
        /\ Has(trace[p], "jira epic add") =>
              /\ Truthy(Get(data[p], "epic", PyNone))
              /\ created_key[p] # ""
              /\ Precedes(trace[p], "jira issue create", "jira epic add")
        /\ Has(trace[p], "curl PUT") =>
              /\ ticket_key[p] # ""
              /\ Precedes(trace[p], "create_jira_ticket returned ticket_key", "curl PUT")
              /\ Precedes(trace[p], "jira issue create", "curl PUT")

\* One invocation has run create, the epic link and the update, and another
\* has ended after a create that failed.
C4_Witness ==
    /\ \E p \in Procs :
          pc[p] = "done" /\ \A c \in ExternalCalls : Count(trace[p], c) = 1
    /\ \E p \in Procs :
          /\ pc[p] = "done" /\ Has(trace[p], "jira issue create")
          /\ Has(trace[p], "create_jira_ticket returned None")

\* C6: on full success (ticket created and description updated) what the
\* program writes to standard output is the ticket identifier, a single
\* token, and the exit code is 0.
C6_StdoutIsTheKey ==
    \A p \in Procs :
        (pc[p] = "done" /\ Has(trace[p], "update_jira_ticket returned True")) =>
            /\ exit_code[p] = "0"
            /\ stdout[p] = <<Printed("{ticket_key}", ticket_key[p])>>

\* No other invocation has written the temporary description file.
Alone(p) == \A q \in Procs \ {p} : ~Has(trace[q], "write desc_file")

\* C8: with a single invocation running alone, the content create reads
\* from the temporary description file is that run's rendered description
\* (two concurrent invocations can read each other's: C8_Race).
C8_AloneReadsOwn ==
    \A p \in Procs :
        (create_read[p].read /\ Alone(p)) =>
            /\ create_read[p].text = description[p]
            /\ tracker[p].exists => tracker[p].body = description[p]

\* Two invocations ran concurrently and the create of one read the
\* description the other wrote: its ticket's body is the other's rendering.
C8_Race ==
    \E p \in Procs : \E q \in Procs \ {p} :
        /\ create_read[p].read
        /\ description[p] # <<>> /\ description[q] # <<>>
        /\ description[p] # description[q]
        /\ create_read[p].text = description[q]
        /\ tracker[p].exists /\ tracker[p].body = description[q]

\* The tracker CLI's create call succeeded and a ticket was created.
CreateSucceeded(p) ==
    Has(trace[p], "jira issue create exited 0") /\ tracker[p].exists

\* C9: in every run that ends with exit code 1, the create operation was
\* never invoked or did not create a ticket: whenever the tracker CLI's
\* create call succeeded and a ticket was created, create_jira_ticket returns
\* its identifier and main exits with code 0.
C9_ExitOneMeansNoTicket ==
    \A p \in Procs :
        /\ exit_code[p] = "1" => ~CreateSucceeded(p)
        /\ (pc[p] = "done" /\ CreateSucceeded(p)) =>
              ticket_key[p] # "" /\ exit_code[p] = "0"

\* C9 as amended: exit code 1 means create_jira_ticket returned no
\* identifier, not that no ticket exists.  In a run that ends with exit code
\* 1 after the tracker CLI's create call succeeded and made a ticket, no
\* identifier was found in the create output, or an exception was raised
\* later in create_jira_ticket (the epic-link call raised, the configuration
\* has no server entry); when create_jira_ticket returns the identifier, main
\* exits with code 0.
C9_ExitOneMeansNoIdentifier ==
    \A p \in Procs :
        /\ (exit_code[p] = "1" /\ CreateSucceeded(p)) =>
              /\ Has(trace[p], "create_jira_ticket returned None")
              /\ ticket_key[p] = ""
              /\ \/ Has(stderr[p], "Ticket created but couldn't extract key")
                 \/ /\ Has(stderr[p], "Error creating JIRA ticket")
                    /\ created_key[p] # ""
                    /\ \/ no_server
                       \/ /\ Truthy(Get(data[p], "epic", PyNone))
                          /\ ~Has(stdout[p],
                                 Printed("Created JIRA ticket: {ticket_key}",
                                         created_key[p]))
        /\ (pc[p] = "done" /\ Has(trace[p], "create_jira_ticket returned ticket_key")) =>
              exit_code[p] = "0"
        /\ exit_code[p] = "1" => ~Has(trace[p], "create_jira_ticket returned ticket_key")

\* A run ended with exit code 1 although its create call made the ticket and
\* exited 0: no identifier was found in the output.
C9_Witness ==
    \E p \in Procs :
        /\ exit_code[p] = "1" /\ CreateSucceeded(p)
        /\ Has(stderr[p], "Ticket created but couldn't extract key")

=============================================================================
